---- MODULE Spec2Model ----
(***************************************************************************)
(* Model of relay_control.py: the RelayControl object (device discovery,   *)
(* serial connection lifecycle, relay toggle, periodic connection check)   *)
(* together with the part of the operating system it talks to: the tty     *)
(* devices that are attached and the serial handles that are open.         *)
(***************************************************************************)
EXTENDS Integers, Sequences, FiniteSets, TLC

\* ------------------------------------------------------------------ bounds
\* number of handles that may be open without being referenced any more
MaxLeaked == 1
\* number of plug/unplug events in the liveness specification
MaxEnvEvents == 2

\* --------------------------------------------------------------- constants
None == "None"
NoHandle == 0

\* device nodes of the tty subsystem the model enumerates
Paths == {"ttyUSB0", "ttyUSB1", "ttyS0"}

\* 'ttyUSB' in device.device_node
IsTtyUSB(p) == p \in {"ttyUSB0", "ttyUSB1"}

\* mutant: the checksum byte of the ON frame in the OFF frame
OFF_FRAME_onChecksum == <<160, 1, 0, 162>>

\* b'\xA0\x01\x00\xA1' and b'\xA0\x01\x01\xA2'
OFF_FRAME == <<160, 1, 0, 161>>
ON_FRAME == <<160, 1, 1, 162>>

\* --------------------------------------------------------- the environment
\* one tty device node: whether it is attached, whether udev reports the
\* CH340 vendor/product id for it, whether serial.Serial() on it succeeds
\* and whether a write to it succeeds.
Absent == [present |-> FALSE, ident |-> FALSE, openable |-> FALSE, writable |-> FALSE]
Attached ==
  {a \in [present : {TRUE}, ident : BOOLEAN, openable : BOOLEAN, writable : BOOLEAN] :
     a.writable => a.openable}

\* what may be attached at node p: open and write failures are modelled on
\* the ttyUSB nodes only
AttachedAt(p) ==
  IF p \in {"ttyUSB0", "ttyUSB1"} THEN Attached
  ELSE {a \in Attached : a.openable /\ a.writable}

Configs == {d \in [Paths -> {Absent} \cup Attached] :
              \A p \in Paths : d[p].present => d[p] \in AttachedAt(p)}

Max(a, b) == IF a >= b THEN a ELSE b

\* the orders in which context.list_devices(subsystem='tty') may list the
\* attached devices
Present(d) == {p \in Paths : d[p].present}
Orders(d) ==
  LET n == Cardinality(Present(d))
  IN {o \in [1..n -> Present(d)] : \A i, j \in 1..n : o[i] = o[j] => i = j}

\* os.path.exists(path)
PathExists(d, p) == p \in Paths /\ d[p].present

VARIABLES
  relay_status,   \* self.relay_status
  serial_port,    \* self.serial_port: id of the handle held, NoHandle for None
  device_path,    \* self.device_path
  status_label,   \* text of self.status_label
  button_state,   \* state of self.control_button
  button_text,    \* text of self.control_button
  device_info,    \* text of self.device_info
  handles,        \* the open serial handles the program can still reach
  leaked,         \* number of handles dropped without close() and still open
  pending,        \* number of scheduled check_connection callbacks
  dev,            \* the attached tty devices
  budget,         \* plug/unplug events left (liveness specification only)
  tick,           \* parity of the ticks run (liveness specification only)
  lastCmd,        \* history: the most recent frame successfully transmitted
  lastSet,        \* history: the most recent event that set relay_status
  op              \* history: what the last operation did

vars == <<relay_status, serial_port, device_path, status_label, button_state,
          button_text, device_info, handles, leaked, pending, dev, budget,
          tick, lastCmd,
          lastSet, op>>

\* ------------------------------------------------------------ state record
\* The operations are written as operators on a record holding the fields of
\* the object, the open handles and the history of the running operation.
Cur ==
  [relay_status |-> relay_status, serial_port |-> serial_port,
   device_path |-> device_path, status_label |-> status_label,
   button_state |-> button_state, button_text |-> button_text,
   device_info |-> device_info, handles |-> handles, leaked |-> leaked,
   lastCmd |-> lastCmd, lastSet |-> lastSet, op |-> op]

\* the history of an operation that is about to run on state s
NoOp(name) ==
  [name |-> name, locates |-> 0, order |-> <<>>, probed |-> <<>>,
   writes |-> <<>>, opens |-> <<>>, tried |-> <<>>, connects |-> <<>>,
   peak |-> 0,
   pre |-> [relay_status |-> FALSE, serial_port |-> NoHandle,
            device_path |-> None, exists |-> FALSE, stale |-> FALSE]]

HandleOf(s, id) == CHOOSE h \in s.handles : h.id = id

Begin(s, d, name) ==
  [s EXCEPT !.op =
     [NoOp(name) EXCEPT
        !.peak = Cardinality(s.handles) + s.leaked,
        !.pre = [relay_status |-> s.relay_status,
                 serial_port |-> s.serial_port,
                 device_path |-> s.device_path,
                 exists |-> PathExists(d, s.device_path),
                 stale |-> IF s.serial_port = NoHandle THEN FALSE
                           ELSE HandleOf(s, s.serial_port).stale]]]

\* ------------------------------------------------------------- the OS side
\* lowest free descriptor
NewId(hs) == CHOOSE i \in 1..(Cardinality(hs) + 1) :
               /\ \A h \in hs : h.id # i
               /\ \A j \in 1..(i - 1) : \E h \in hs : h.id = j

\* serial.Serial(port) succeeds
CanOpen(d, p) == PathExists(d, p) /\ d[p].openable

\* a successful serial.Serial(p): a new open handle
OpenHandle(s, p) ==
  LET h == [id |-> NewId(s.handles), path |-> p, stale |-> FALSE]
  IN [s EXCEPT !.handles = @ \cup {h},
               !.op.opens = Append(@, p),
               !.op.peak = Max(@, Cardinality(s.handles) + s.leaked + 1)]

\* Serial.close()
CloseHandle(s, id) == [s EXCEPT !.handles = {h \in @ : h.id # id}]

\* Serial.write(frame) on handle h succeeds
CanWrite(d, h) == ~h.stale /\ d[h.path].present /\ d[h.path].writable

\* self.serial_port = None while the handle is open: the reference is
\* dropped without close().  The finalizer closes the handle at once (fin),
\* or the handle stays open until it is collected.
DropHandle(s, fin) ==
  IF s.serial_port = NoHandle THEN s
  ELSE LET s1 == [CloseHandle(s, s.serial_port) EXCEPT !.serial_port = NoHandle]
       IN IF fin \/ s.leaked >= MaxLeaked THEN s1
          ELSE [s1 EXCEPT !.leaked = @ + 1]

\* ---------------------------------------------------- find_ch340_device
\* first loop: the devices reporting the CH340 vendor and product id
IdentMatches(d, order) == SelectSeq(order, LAMBDA p : d[p].ident)

\* lines 170-171
NotFound(s) == [s EXCEPT !.device_path = None, !.device_info = "Not found"]

\* lines 152-153 and 164-165
Found(s, p) == [s EXCEPT !.device_path = p, !.device_info = p]

\* mutant: a candidate that fails ends the scan instead of being skipped
RECURSIVE ProbeScan_stopOnError(_, _, _)
ProbeScan_stopOnError(s, d, rest) ==
  IF rest = <<>> THEN NotFound(s)
  ELSE LET p == Head(rest)
       IN IF ~IsTtyUSB(p) THEN ProbeScan_stopOnError(s, d, Tail(rest))
          ELSE LET s1 == [s EXCEPT !.op.probed = Append(@, p)]
               IN IF ~CanOpen(d, p) THEN NotFound(s1)
                  ELSE LET s2 == OpenHandle(s1, p)
                           hid == NewId(s1.handles)
                           wok == d[p].writable
                           s3 == [s2 EXCEPT
                                    !.op.writes = Append(@,
                                       [by |-> "probe", handle |-> hid,
                                        path |-> p, frame |-> OFF_FRAME,
                                        ok |-> wok, sent |-> wok]),
                                    !.lastCmd = IF wok THEN OFF_FRAME ELSE @]
                           s4 == CloseHandle(s3, hid)
                       IN IF wok THEN Found(s4, p) ELSE NotFound(s4)

\* second loop: open every ttyUSB device and write the OFF frame to it
RECURSIVE ProbeScan(_, _, _)
ProbeScan(s, d, rest) ==
  IF rest = <<>> THEN NotFound(s)
  ELSE LET p == Head(rest)
       IN IF ~IsTtyUSB(p) THEN ProbeScan(s, d, Tail(rest))
          ELSE LET s1 == [s EXCEPT !.op.probed = Append(@, p)]
               IN IF ~CanOpen(d, p) THEN ProbeScan(s1, d, Tail(rest))
                  ELSE LET s2 == OpenHandle(s1, p)
                           hid == NewId(s1.handles)
                           wok == d[p].writable
                           s3 == [s2 EXCEPT
                                    !.op.writes = Append(@,
                                       [by |-> "probe", handle |-> hid,
                                        path |-> p, frame |-> OFF_FRAME,
                                        ok |-> wok, sent |-> wok]),
                                    !.lastCmd = IF wok THEN OFF_FRAME ELSE @]
                           s4 == CloseHandle(s3, hid)
                       IN IF wok THEN Found(s4, p)
                          ELSE ProbeScan(s4, d, Tail(rest))

\* mutant: the first loop does not return at the first match
find_ch340_device_lastMatch(s, d, order) ==
  LET s0 == [s EXCEPT !.op.locates = @ + 1, !.op.order = order,
                      !.op.probed = <<>>]
      m == IdentMatches(d, order)
  IN IF m # <<>> THEN Found(s0, m[Len(m)])
     ELSE ProbeScan(s0, d, order)

find_ch340_device(s, d, order) ==
  LET s0 == [s EXCEPT !.op.locates = @ + 1, !.op.order = order,
                      !.op.probed = <<>>]
      m == IdentMatches(d, order)
  IN IF m # <<>> THEN Found(s0, Head(m))
     ELSE ProbeScan(s0, d, order)

\* ---------------------------------------------------------- update_status
update_status(s, status) ==
  [s EXCEPT !.relay_status = status,
            !.status_label = IF status THEN "ON" ELSE "OFF",
            !.button_text = IF status THEN "Turn OFF" ELSE "Turn ON"]

\* ------------------------------------------------------ initialize_serial
\* mutant: line 202 (the button is disabled) is missing
InitFailed_buttonLeft(s) ==
  [s EXCEPT !.status_label = "Error", !.serial_port = NoHandle]

\* the except branch, lines 200-203
InitFailed(s) ==
  [s EXCEPT !.status_label = "Error", !.button_state = "disabled",
            !.serial_port = NoHandle]

\* mutant: line 198 (self.update_status(False)) is missing
initialize_serial_keepStatus(s, d, order) ==
  LET s1 == IF s.serial_port # NoHandle THEN CloseHandle(s, s.serial_port)
            ELSE s
      s2 == IF s1.device_path = None THEN find_ch340_device(s1, d, order)
            ELSE s1
      sT == [s2 EXCEPT !.op.tried = Append(@, s2.device_path)]
  IN IF s2.device_path = None THEN InitFailed(s2)
     ELSE IF ~CanOpen(d, s2.device_path) THEN InitFailed(sT)
     ELSE LET s3 == OpenHandle(sT, s2.device_path)
          IN [s3 EXCEPT !.serial_port = NewId(s2.handles),
                        !.op.connects = Append(@, s2.device_path),
                        !.lastSet = "open",
                        !.button_state = "normal"]

initialize_serial(s, d, order) ==
  LET s1 == IF s.serial_port # NoHandle THEN CloseHandle(s, s.serial_port)
            ELSE s
      s2 == IF s1.device_path = None THEN find_ch340_device(s1, d, order)
            ELSE s1
      sT == [s2 EXCEPT !.op.tried = Append(@, s2.device_path)]
  IN IF s2.device_path = None THEN InitFailed(s2)
     ELSE IF ~CanOpen(d, s2.device_path) THEN InitFailed(sT)
     ELSE LET s3 == OpenHandle(sT, s2.device_path)
              s4 == [s3 EXCEPT !.serial_port = NewId(s2.handles),
                               !.op.connects = Append(@, s2.device_path),
                               !.lastSet = "open"]
          IN [update_status(s4, FALSE) EXCEPT !.button_state = "normal"]

\* ------------------------------------------------------- check_connection
\* mutant: line 233 (self.serial_port = None) is missing
check_connection_keepHandle(s, d, order, fin) ==
  IF s.device_path = None \/ ~PathExists(d, s.device_path)
  THEN LET s1 == find_ch340_device(s, d, order)
       IN IF s1.device_path = None
          THEN [s1 EXCEPT !.status_label = "Error",
                          !.button_state = "disabled"]
          ELSE s1
  ELSE IF s.serial_port = NoHandle THEN initialize_serial(s, d, order)
  ELSE s

\* mutant: the connection is reopened on every tick that finds the path
check_connection_alwaysInit(s, d, order, fin) ==
  IF s.device_path = None \/ ~PathExists(d, s.device_path)
  THEN LET s1 == find_ch340_device(s, d, order)
       IN IF s1.device_path = None
          THEN DropHandle([s1 EXCEPT !.status_label = "Error",
                                     !.button_state = "disabled"], fin)
          ELSE s1
  ELSE initialize_serial(s, d, order)

\* mutant: the elif branch of lines 234-235 is missing
check_connection_noRetry(s, d, order, fin) ==
  IF s.device_path = None \/ ~PathExists(d, s.device_path)
  THEN LET s1 == find_ch340_device(s, d, order)
       IN IF s1.device_path = None
          THEN DropHandle([s1 EXCEPT !.status_label = "Error",
                                     !.button_state = "disabled"], fin)
          ELSE s1
  ELSE s

\* mutant: find_ch340_device is not called when the path is missing
check_connection_noLocate(s, d, order, fin) ==
  IF s.device_path = None \/ ~PathExists(d, s.device_path)
  THEN IF s.device_path = None
       THEN DropHandle([s EXCEPT !.status_label = "Error",
                                 !.button_state = "disabled"], fin)
       ELSE s
  ELSE IF s.serial_port = NoHandle THEN initialize_serial(s, d, order)
  ELSE s

check_connection(s, d, order, fin) ==
  IF s.device_path = None \/ ~PathExists(d, s.device_path)
  THEN LET s1 == find_ch340_device(s, d, order)
       IN IF s1.device_path = None
          THEN DropHandle([s1 EXCEPT !.status_label = "Error",
                                     !.button_state = "disabled"], fin)
          ELSE s1
  ELSE IF s.serial_port = NoHandle THEN initialize_serial(s, d, order)
  ELSE s

\* ----------------------------------------------------------- toggle_relay
\* mutant: the frame of the current state is sent, not of the opposite one
toggle_relay_sameFrame(s, d, order, flushOk, fin) ==
  IF s.serial_port = NoHandle THEN initialize_serial(s, d, order)
  ELSE LET h == HandleOf(s, s.serial_port)
           frame == IF s.relay_status THEN ON_FRAME ELSE OFF_FRAME
           wok == CanWrite(d, h)
           sent == wok /\ flushOk
           s1 == [s EXCEPT
                    !.op.writes = Append(@,
                       [by |-> "toggle", handle |-> h.id, path |-> h.path,
                        frame |-> frame, ok |-> wok, sent |-> sent]),
                    !.lastCmd = IF sent THEN frame ELSE @,
                    !.lastSet = IF ~sent THEN @
                                ELSE IF frame = ON_FRAME THEN "on" ELSE "off"]
       IN IF sent THEN update_status(s1, ~s.relay_status)
          ELSE initialize_serial(
                 DropHandle([s1 EXCEPT !.status_label = "Error"], fin),
                 d, order)

\* mutant: the return of line 249 is missing, the write follows the
\* reconnection
toggle_relay_noReturn(s, d, order, flushOk, fin) ==
  LET s0 == IF s.serial_port = NoHandle THEN initialize_serial(s, d, order)
            ELSE s
  IN IF s0.serial_port = NoHandle THEN s0
     ELSE LET h == HandleOf(s0, s0.serial_port)
              frame == IF ~s0.relay_status THEN ON_FRAME ELSE OFF_FRAME
              wok == CanWrite(d, h)
              sent == wok /\ flushOk
              s1 == [s0 EXCEPT
                       !.op.writes = Append(@,
                          [by |-> "toggle", handle |-> h.id, path |-> h.path,
                           frame |-> frame, ok |-> wok, sent |-> sent]),
                       !.lastCmd = IF sent THEN frame ELSE @,
                       !.lastSet = IF ~sent THEN @
                                   ELSE IF frame = ON_FRAME THEN "on" ELSE "off"]
          IN IF sent THEN update_status(s1, ~s0.relay_status)
             ELSE initialize_serial(
                    DropHandle([s1 EXCEPT !.status_label = "Error"], fin),
                    d, order)

\* mutant: line 267 (self.initialize_serial()) is missing
toggle_relay_noReconnect(s, d, order, flushOk, fin) ==
  IF s.serial_port = NoHandle THEN initialize_serial(s, d, order)
  ELSE LET h == HandleOf(s, s.serial_port)
           frame == IF ~s.relay_status THEN ON_FRAME ELSE OFF_FRAME
           wok == CanWrite(d, h)
           sent == wok /\ flushOk
           s1 == [s EXCEPT
                    !.op.writes = Append(@,
                       [by |-> "toggle", handle |-> h.id, path |-> h.path,
                        frame |-> frame, ok |-> wok, sent |-> sent]),
                    !.lastCmd = IF sent THEN frame ELSE @,
                    !.lastSet = IF ~sent THEN @
                                ELSE IF frame = ON_FRAME THEN "on" ELSE "off"]
       IN IF sent THEN update_status(s1, ~s.relay_status)
          ELSE DropHandle([s1 EXCEPT !.status_label = "Error"], fin)

\* mutant: update_status is called before the write instead of after it
toggle_relay_statusFirst(s, d, order, flushOk, fin) ==
  IF s.serial_port = NoHandle THEN initialize_serial(s, d, order)
  ELSE LET h == HandleOf(s, s.serial_port)
           frame == IF ~s.relay_status THEN ON_FRAME ELSE OFF_FRAME
           wok == CanWrite(d, h)
           sent == wok /\ flushOk
           s0 == update_status(s, ~s.relay_status)
           s1 == [s0 EXCEPT
                    !.op.writes = Append(@,
                       [by |-> "toggle", handle |-> h.id, path |-> h.path,
                        frame |-> frame, ok |-> wok, sent |-> sent]),
                    !.lastCmd = IF sent THEN frame ELSE @,
                    !.lastSet = IF ~sent THEN @
                                ELSE IF frame = ON_FRAME THEN "on" ELSE "off"]
       IN IF sent THEN s1
          ELSE initialize_serial(
                 DropHandle([s1 EXCEPT !.status_label = "Error"], fin),
                 d, order)

toggle_relay(s, d, order, flushOk, fin) ==
  IF s.serial_port = NoHandle THEN initialize_serial(s, d, order)
  ELSE LET h == HandleOf(s, s.serial_port)
           frame == IF ~s.relay_status THEN ON_FRAME ELSE OFF_FRAME
           wok == CanWrite(d, h)
           sent == wok /\ flushOk
           s1 == [s EXCEPT
                    !.op.writes = Append(@,
                       [by |-> "toggle", handle |-> h.id, path |-> h.path,
                        frame |-> frame, ok |-> wok, sent |-> sent]),
                    !.lastCmd = IF sent THEN frame ELSE @,
                    !.lastSet = IF ~sent THEN @
                                ELSE IF frame = ON_FRAME THEN "on" ELSE "off"]
       IN IF sent THEN update_status(s1, ~s.relay_status)
          ELSE initialize_serial(
                 DropHandle([s1 EXCEPT !.status_label = "Error"], fin),
                 d, order)

\* --------------------------------------------------------------- __init__
Fresh ==
  [relay_status |-> FALSE, serial_port |-> NoHandle, device_path |-> None,
   status_label |-> "OFF", button_state |-> "normal",
   button_text |-> "Turn ON", device_info |-> "Searching...",
   handles |-> {}, leaked |-> 0, lastCmd |-> <<>>, lastSet |-> "none",
   op |-> NoOp("__init__")]

Construct(d, o1, o2) ==
  initialize_serial(find_ch340_device(Fresh, d, o1), d, o2)

\* ---------------------------------------------------------------- actions
Commit(r) ==
  /\ relay_status' = r.relay_status
  /\ serial_port' = r.serial_port
  /\ device_path' = r.device_path
  /\ status_label' = r.status_label
  /\ button_state' = r.button_state
  /\ button_text' = r.button_text
  /\ device_info' = r.device_info
  /\ handles' = r.handles
  /\ leaked' = r.leaked
  /\ lastCmd' = r.lastCmd
  /\ lastSet' = r.lastSet
  /\ op' = r.op

Init ==
  /\ dev \in Configs
  /\ \E o1, o2 \in Orders(dev) :
       LET r == Construct(dev, o1, o2)
       IN /\ relay_status = r.relay_status
          /\ serial_port = r.serial_port
          /\ device_path = r.device_path
          /\ status_label = r.status_label
          /\ button_state = r.button_state
          /\ button_text = r.button_text
          /\ device_info = r.device_info
          /\ handles = r.handles
          /\ leaked = r.leaked
          /\ lastCmd = r.lastCmd
          /\ lastSet = r.lastSet
          /\ op = r.op
  /\ pending = 1
  /\ budget = MaxEnvEvents
  /\ tick = 0

\* Inputs of an operation.  The enumeration order matters only when the
\* operation enumerates (device_path is None or missing), the outcome of
\* flush() and the fate of a dropped handle only when a handle is held.
EnumInputs == IF device_path = None \/ ~PathExists(dev, device_path)
              THEN Orders(dev) ELSE {<<>>}
HandleInputs == IF serial_port # NoHandle THEN BOOLEAN ELSE {TRUE}

\* the user (or any caller) calls initialize_serial()
Initialize ==
  /\ \E o \in EnumInputs :
       LET r == initialize_serial(Begin(Cur, dev, "initialize"), dev, o)
       IN Commit(r)
  /\ UNCHANGED <<pending, dev, budget, tick>>

\* the button command (or any caller) calls toggle_relay()
Toggle ==
  /\ \E o \in EnumInputs, flushOk \in HandleInputs, fin \in HandleInputs :
       LET r == toggle_relay(Begin(Cur, dev, "toggle"), dev, o, flushOk, fin)
       IN Commit(r)
  /\ UNCHANGED <<pending, dev, budget, tick>>

\* mutant: the branch that finds no device returns before line 237
Tick_earlyReturn ==
  /\ pending > 0
  /\ \E o \in EnumInputs, fin \in HandleInputs :
       LET r == check_connection(Begin(Cur, dev, "check"), dev, o, fin)
       IN /\ Commit(r)
          /\ pending' = (pending - 1) + (IF r.device_path = None THEN 0 ELSE 1)
  /\ UNCHANGED <<dev, budget>>

\* a scheduled check_connection callback runs and reschedules itself
Tick ==
  /\ pending > 0
  /\ \E o \in EnumInputs, fin \in HandleInputs :
       LET r == check_connection(Begin(Cur, dev, "check"), dev, o, fin)
       IN Commit(r)
  /\ pending' = (pending - 1) + 1
  /\ UNCHANGED <<dev, budget>>

CheckConnection == Tick /\ UNCHANGED tick

\* a device is unplugged: its node disappears, handles on it go stale
UnplugEffect(p) ==
  /\ dev[p].present
  /\ dev' = [dev EXCEPT ![p] = Absent]
  /\ handles' = {[h EXCEPT !.stale = @ \/ h.path = p] : h \in handles}
  /\ op' = NoOp("unplug")
  /\ UNCHANGED <<relay_status, serial_port, device_path, status_label,
                 button_state, button_text, device_info, leaked, pending,
                 tick, lastCmd, lastSet>>

\* a device is plugged in and gets the free node p
PlugEffect(p, a) ==
  /\ ~dev[p].present
  /\ dev' = [dev EXCEPT ![p] = a]
  /\ op' = NoOp("plug")
  /\ UNCHANGED <<relay_status, serial_port, device_path, status_label,
                 button_state, button_text, device_info, handles, leaked,
                 pending, tick, lastCmd, lastSet>>

Unplug == \E p \in Paths : UnplugEffect(p) /\ UNCHANGED budget

Plug == \E p \in Paths : \E a \in AttachedAt(p) : PlugEffect(p, a) /\ UNCHANGED budget

\* the garbage collector finalizes a dropped handle, which closes it
Finalize ==
  /\ leaked > 0
  /\ leaked' = leaked - 1
  /\ op' = NoOp("finalize")
  /\ UNCHANGED <<relay_status, serial_port, device_path, status_label,
                 button_state, button_text, device_info, handles, pending,
                 dev, budget, tick, lastCmd, lastSet>>

Next == Initialize \/ Toggle \/ CheckConnection \/ Unplug \/ Plug \/ Finalize

Spec == Init /\ [][Next]_vars

\* The object left alone with its timer: no caller of toggle_relay or
\* initialize_serial, finitely many plug and unplug events, and the Tk main
\* loop running every scheduled check_connection callback.
LiveUnplug ==
  /\ budget > 0
  /\ budget' = budget - 1
  /\ \E p \in Paths : UnplugEffect(p)

LivePlug ==
  /\ budget > 0
  /\ budget' = budget - 1
  /\ \E p \in Paths : \E a \in AttachedAt(p) : PlugEffect(p, a)

\* every run of the callback is a step of its own, also one that finds
\* nothing to do
LiveCheck == Tick /\ tick' = 1 - tick

LiveNext == LiveCheck \/ LiveUnplug \/ LivePlug \/ Finalize

LiveSpec == Init /\ [][LiveNext]_vars /\ WF_vars(LiveCheck)

\* ------------------------------------------------------- shared predicates
\* a handle is held (the spec's Connected)
Connected == serial_port # NoHandle

\* the handle held
Held == HandleOf(Cur, serial_port)

\* all handles open in the process
OpenHandles == Cardinality(handles) + leaked

\* the last step was one of the object's operations
AfterOperation == op.name \in {"__init__", "initialize", "toggle", "check"}

\* the write of toggle_relay in the last operation did not go through
ToggleFailed ==
  /\ op.name = "toggle"
  /\ op.pre.serial_port # NoHandle
  /\ \E i \in 1..Len(op.writes) :
       op.writes[i].by = "toggle" /\ ~op.writes[i].sent

\* ------------------------------------------------------------------ claims

\* C1: at no point, in or between operations, are two serial handles open
\* at the same time: the handle held before is closed before a new one is
\* opened, also where toggle_relay and check_connection drop the handle.
C1_AtMostOneHandle == OpenHandles <= 1 /\ op.peak <= 1

\* C2: relay_status is On exactly when the most recent frame successfully
\* transmitted (by toggle_relay or by the probe) was the ON frame, and a
\* toggle_relay whose write or flush fails leaves relay_status as it was.
C2_StateCommand ==
  /\ relay_status <=> (lastCmd = ON_FRAME)
  /\ ToggleFailed => relay_status = op.pre.relay_status

\* C2 as amended: relay_status is On exactly when the most recent event that
\* set it (a frame transmitted by a toggle_relay whose write and flush both
\* succeeded, or a successful open in initialize_serial, which sets it to
\* Off) was the transmission of the ON frame; a toggle_relay whose write or
\* flush fails leaves relay_status as it was when the reconnection in the
\* same call fails and Off when it succeeds.
C2_StateCommandAmended ==
  /\ relay_status <=> (lastSet = "on")
  /\ ToggleFailed =>
       relay_status = (IF Connected THEN FALSE ELSE op.pre.relay_status)

\* a failed toggle of a relay that was On reconnected: relay_status is Off
\* although the last frame transmitted is the ON frame
C2_Witness ==
  /\ ToggleFailed /\ op.pre.relay_status /\ Connected
  /\ lastCmd = ON_FRAME

\* C3: a check_connection tick that finds the selected path missing while a
\* handle is held ends without a handle or with a connection opened in that
\* tick; the handle opened before the disappearance is not kept.
C3_DisconnectionConvergence ==
  (/\ op.name = "check"
   /\ op.pre.serial_port # NoHandle
   /\ op.pre.device_path # None
   /\ ~op.pre.exists)
  => \/ ~Connected
     \/ /\ op.connects # <<>>
        /\ ~Held.stale
        /\ Held.path = device_path

\* C4: device_path = None implies that no handle is held.
C4_NoPathNoHandle == device_path = None => ~Connected

\* check_connection found the path of a held handle missing and no device
C4_Witness ==
  /\ op.name = "check"
  /\ op.pre.serial_port # NoHandle
  /\ device_path = None

\* C5: after every operation a held handle is a handle on device_path that
\* was opened after the device at that path last appeared, and toggle_relay
\* never writes to a handle whose device disappeared and was found again.
C5_HandleTiedToPath ==
  AfterOperation =>
    /\ Connected =>
         /\ Held.path = device_path
         /\ ~(Held.stale /\ PathExists(dev, device_path))
    /\ \A i \in 1..Len(op.writes) :
         op.writes[i].by = "toggle" =>
           ~(op.pre.stale /\ op.pre.exists)

\* C6: when the enumeration holds a device with the CH340 vendor and product
\* id, find_ch340_device selects the first such device of the enumeration
\* and opens or writes to no device.
C6_DiscoveryPrecedence ==
  (/\ op.locates > 0
   /\ \E i \in 1..Len(op.order) : dev[op.order[i]].ident)
  => /\ \E i \in 1..Len(op.order) :
          /\ device_path = op.order[i]
          /\ dev[op.order[i]].ident
          /\ \A j \in 1..(i - 1) : ~dev[op.order[j]].ident
     /\ op.probed = <<>>
     /\ \A i \in 1..Len(op.writes) : op.writes[i].by # "probe"

\* two CH340 devices listed after a ttyUSB device that a probe would accept
C6_Witness ==
  /\ op.locates > 0
  /\ Len(op.order) = 3
  /\ IsTtyUSB(op.order[1]) /\ ~dev[op.order[1]].ident
  /\ dev[op.order[1]].openable /\ dev[op.order[1]].writable
  /\ dev[op.order[2]].ident /\ dev[op.order[3]].ident
  /\ device_path = op.order[2]
\* a device find_ch340_device accepts: one with the CH340 ids, or a ttyUSB
\* device on which open and write succeed
Accepted(d, p) ==
  d[p].present /\ (d[p].ident \/ (IsTtyUSB(p) /\ d[p].openable /\ d[p].writable))

Locatable(d) == \E p \in Paths : Accepted(d, p)

\* the plug and unplug events are over and every device that is attached is
\* one that find_ch340_device accepts and that can be opened
Settled ==
  /\ budget = 0
  /\ Present(dev) # {}
  /\ \A p \in Present(dev) : Accepted(dev, p) /\ dev[p].openable

\* C7: with the periodic check_connection running and nobody calling
\* toggle_relay, once the plug and unplug events are over and a relay device
\* that can be opened stays attached, the object eventually holds a handle
\* opened on an attached device, with the button enabled.
C7_AutomaticRecovery ==
  Settled ~> (/\ Connected
              /\ ~Held.stale
              /\ Held.path \in Present(dev)
              /\ button_state = "normal")

\* C8: initialize_serial (called by the user or by __init__) ends Connected
\* with relay_status Off and device_path the located or already selected
\* path when a device is located or selected and the open succeeds, and in
\* Error without a handle otherwise; with no device attached at startup the
\* state is Error, Off, None with the button disabled.
C8_Initialize ==
  op.name \in {"initialize", "__init__"} =>
    /\ op.pre.device_path # None => device_path = op.pre.device_path
    /\ op.pre.device_path = None =>
         /\ (device_path # None) <=> Locatable(dev)
         /\ device_path # None => Accepted(dev, device_path)
    /\ IF device_path # None /\ dev[device_path].present
                             /\ dev[device_path].openable
       THEN /\ Connected
            /\ ~relay_status
            /\ Held.path = device_path /\ ~Held.stale
            /\ op.connects = <<device_path>>
            /\ status_label = "OFF" /\ button_state = "normal"
       ELSE /\ ~Connected
            /\ handles = {}
            /\ op.connects = <<>>
            /\ status_label = "Error" /\ button_state = "disabled"
    /\ (op.name = "__init__" /\ Present(dev) = {}) =>
         /\ ~Connected /\ ~relay_status /\ device_path = None
         /\ status_label = "Error" /\ button_state = "disabled"

\* initialize_serial succeeded on an object whose relay_status was On
C8_Witness ==
  /\ op.name = "initialize"
  /\ op.pre.relay_status
  /\ Connected /\ ~relay_status

\* C9: toggle_relay with a handle held writes exactly one frame, to the
\* handle held, the frame of the opposite of relay_status; when write and
\* flush succeed relay_status is flipped and handle and device_path stay.
C9_ToggleConnected ==
  (op.name = "toggle" /\ op.pre.serial_port # NoHandle) =>
    /\ Len(op.writes) = 1
    /\ op.writes[1].by = "toggle"
    /\ op.writes[1].handle = op.pre.serial_port
    /\ op.writes[1].frame =
         (IF op.pre.relay_status THEN <<160, 1, 0, 161>> ELSE <<160, 1, 1, 162>>)
    /\ op.writes[1].sent =>
         /\ relay_status = ~op.pre.relay_status
         /\ status_label = (IF relay_status THEN "ON" ELSE "OFF")
         /\ serial_port = op.pre.serial_port
         /\ op.opens = <<>>
         /\ device_path = op.pre.device_path

\* a relay that was On is switched Off by a successful toggle
C9_Witness ==
  /\ op.name = "toggle"
  /\ op.pre.serial_port # NoHandle /\ op.pre.relay_status
  /\ Len(op.writes) = 1 /\ op.writes[1].sent
  /\ ~relay_status

\* a check_connection tick that ran with a handle held, the selected path
\* missing and no device that find_ch340_device accepts
RemovedTick ==
  /\ op.name = "check"
  /\ op.pre.serial_port # NoHandle
  /\ op.pre.device_path # None
  /\ ~op.pre.exists
  /\ ~Locatable(dev)

\* C10: after the connected device is removed and none can be located, the
\* next check_connection leaves no handle, device_path None and
\* relay_status Off, whatever happened before the removal.
C10_RemovedTuple ==
  RemovedTick => ~Connected /\ device_path = None /\ ~relay_status

\* C10 as amended: the tick leaves no handle, device_path None, the Error
\* label and the button disabled, and relay_status as it was before the
\* tick (Off only if the relay had not been left On).
C10_RemovedTupleAmended ==
  RemovedTick =>
    /\ ~Connected
    /\ device_path = None
    /\ status_label = "Error" /\ button_state = "disabled"
    /\ relay_status = op.pre.relay_status

\* the device of a relay that was On was removed
C10_Witness == RemovedTick /\ op.pre.relay_status /\ ~Connected

\* the ttyUSB devices of the last enumeration, in its order
Candidates == SelectSeq(op.order, LAMBDA p : IsTtyUSB(p))

\* index of the first candidate on which open and write succeed, or one
\* past the last candidate
FirstGood ==
  LET c == Candidates
      good == {i \in 1..Len(c) : dev[c[i]].openable /\ dev[c[i]].writable}
  IN IF good = {} THEN Len(c) + 1
     ELSE CHOOSE i \in good : \A j \in good : i <= j

\* the last operation enumerated and no device had the CH340 ids
ProbingCase ==
  /\ op.locates > 0
  /\ \A i \in 1..Len(op.order) : ~dev[op.order[i]].ident

\* C11: without an identity match the ttyUSB devices are tried in the order
\* of the enumeration, a device whose open or write fails is skipped, the
\* first on which both succeed is selected, no device is selected when all
\* fail, and the probing handle is closed and is not the handle held.
C11_ProbingFallback ==
  ProbingCase =>
    LET c == Candidates
        k == FirstGood
        tried == SubSeq(c, 1, IF k <= Len(c) THEN k ELSE Len(c))
        opened == SelectSeq(tried, LAMBDA p : dev[p].openable)
        probes == SelectSeq(op.writes, LAMBDA w : w.by = "probe")
    IN /\ op.probed = tried
       /\ device_path = (IF k <= Len(c) THEN c[k] ELSE None)
       /\ \A h \in handles : h.id = serial_port
       /\ op.locates = 1 =>
            /\ Len(probes) = Len(opened)
            /\ \A i \in 1..Len(probes) :
                 /\ probes[i].path = opened[i]
                 /\ probes[i].ok = dev[opened[i]].writable
            /\ Len(op.opens) = Len(opened) + Len(op.connects)
            /\ (Connected /\ op.connects = <<>>) =>
                 serial_port = op.pre.serial_port

\* the first ttyUSB device fails and is skipped, the second is selected
C11_Witness ==
  /\ ProbingCase /\ op.locates = 1
  /\ Len(Candidates) = 2
  /\ ~dev[Candidates[1]].writable
  /\ op.probed = Candidates
  /\ device_path = Candidates[2]

\* the last operation was a toggle_relay called without a handle held
ErrorToggle == op.name = "toggle" /\ op.pre.serial_port = NoHandle

\* what a call of initialize_serial leaves behind: the selected path is
\* kept, or located when there was none; a handle on it when the open
\* succeeds, the Error state otherwise
InitializeOutcome ==
  /\ op.pre.device_path # None => device_path = op.pre.device_path
  /\ op.pre.device_path = None => ((device_path # None) <=> Locatable(dev))
  /\ IF device_path # None /\ dev[device_path].present
                           /\ dev[device_path].openable
     THEN /\ Connected /\ ~relay_status
          /\ Held.path = device_path /\ ~Held.stale
          /\ op.connects = <<device_path>>
          /\ status_label = "OFF" /\ button_state = "normal"
     ELSE /\ ~Connected /\ handles = {}
          /\ op.connects = <<>>
          /\ status_label = "Error" /\ button_state = "disabled"
          /\ relay_status = op.pre.relay_status

\* C12: toggle_relay without a handle does what initialize_serial does,
\* transmits no frame to any device and leaves relay_status as it was.
C12_ToggleInError ==
  ErrorToggle =>
    /\ InitializeOutcome
    /\ \A i \in 1..Len(op.writes) : ~op.writes[i].sent
    /\ relay_status = op.pre.relay_status

\* C12 as amended: toggle_relay without a handle does what
\* initialize_serial does and writes no frame of its own; the only frames
\* written are the OFF frames of the probe, when no path was selected and no
\* device has the CH340 ids; relay_status is left as it was when the
\* reconnection fails and is Off when it succeeds.
C12_ToggleInErrorAmended ==
  ErrorToggle =>
    /\ InitializeOutcome
    /\ \A i \in 1..Len(op.writes) :
         /\ op.writes[i].by = "probe"
         /\ op.writes[i].frame = <<160, 1, 0, 161>>
    /\ op.writes # <<>> => (op.pre.device_path = None /\ ProbingCase)
    /\ relay_status = (IF Connected THEN FALSE ELSE op.pre.relay_status)

\* a toggle_relay without a handle located a ttyUSB device by probing it
\* and connected to it
C12_Witness ==
  /\ ErrorToggle /\ Connected
  /\ \E i \in 1..Len(op.writes) : op.writes[i].sent

RediscoveryTick ==
  /\ op.name = "check"
  /\ op.pre.device_path = None \/ ~op.pre.exists
  /\ op.locates = 1
  /\ device_path # None
  /\ dev[device_path].present /\ dev[device_path].openable

\* C14: a check_connection tick that finds the selected path None or
\* missing and locates a device that can be opened also opens it: the tick
\* ends with a handle opened in that tick and relay_status Off.
C14_ReconnectInOneTick ==
  RediscoveryTick =>
    /\ Connected
    /\ op.connects = <<device_path>>
    /\ Held.path = device_path /\ ~Held.stale
    /\ ~relay_status

\* C15: a check_connection tick that runs with a handle held and the
\* selected path existing changes nothing: path, handle, relay_status, the
\* labels and the button stay, nothing is opened and no frame is written.
C15_HealthyTickNoAction ==
  [][(/\ op'.name = "check"
      /\ serial_port # NoHandle
      /\ device_path # None
      /\ PathExists(dev, device_path))
     => /\ UNCHANGED <<relay_status, serial_port, device_path, status_label,
                       button_state, button_text, device_info, handles,
                       leaked, lastCmd>>
        /\ op'.writes = <<>> /\ op'.opens = <<>> /\ op'.locates = 0]_vars

\* a tick ran on a relay that was On, with the path present
C15_Witness ==
  /\ op.name = "check"
  /\ op.pre.serial_port # NoHandle /\ op.pre.exists
  /\ op.pre.relay_status /\ relay_status /\ Connected

\* C16: after every operation the label reads Error and the button is
\* disabled exactly when no handle is held, and the label reads ON or OFF
\* as relay_status says, with the button enabled, exactly when one is held.
C16_ObserverConsistency ==
  /\ ~Connected <=> (status_label = "Error" /\ button_state = "disabled")
  /\ Connected <=> (/\ status_label = (IF relay_status THEN "ON" ELSE "OFF")
                    /\ button_state = "normal")

\* a failed toggle_relay could not reconnect
C16_Witness ==
  /\ ToggleFailed /\ ~Connected
  /\ status_label = "Error" /\ button_state = "disabled"

\* C17: every check_connection tick that runs without a handle tries to
\* recover: it enumerates the devices when the selected path is None or
\* missing, and calls serial.Serial() on the selected path when it exists.
C17_RetryEveryTick ==
  (op.name = "check" /\ op.pre.serial_port = NoHandle) =>
    IF op.pre.device_path = None \/ ~op.pre.exists
    THEN /\ op.locates = 1
         /\ {op.order[i] : i \in 1..Len(op.order)} = Present(dev)
         /\ (device_path # None) <=> Locatable(dev)
    ELSE /\ op.tried = <<op.pre.device_path>>
         /\ Connected <=> dev[op.pre.device_path].openable

\* a tick retried the open on a selected path and the open failed again
C17_Witness ==
  /\ op.name = "check" /\ op.pre.serial_port = NoHandle
  /\ op.pre.device_path # None /\ op.pre.exists
  /\ op.tried # <<>> /\ ~Connected

\* C18: every frame written in the last operation has four bytes, A0, 01,
\* a state byte 00 or 01 and the checksum (A0 + 01 + state) mod 256, and
\* the probe writes the frame with state 00 only.
C18_FrameFormat ==
  \A i \in 1..Len(op.writes) :
    LET f == op.writes[i].frame
    IN /\ Len(f) = 4
       /\ f[1] = 160 /\ f[2] = 1
       /\ f[3] \in {0, 1}
       /\ f[4] = (160 + 1 + f[3]) % 256
       /\ op.writes[i].by = "probe" => f[3] = 0
       /\ op.writes[i].by = "toggle" =>
            f[3] = (IF op.pre.relay_status THEN 0 ELSE 1)

\* a toggle_relay wrote the OFF frame to a relay that the frame before it,
\* the ON frame, had switched on
C18_Witness ==
  /\ op.name = "toggle"
  /\ Len(op.writes) = 1
  /\ op.writes[1].frame = <<160, 1, 0, 161>>
  /\ lastCmd = <<160, 1, 1, 162>>

\* C19: after construction and after every check_connection exactly one
\* check_connection callback is scheduled, whichever branch the call took.
C19_OneTickPending == pending = 1

\* a tick that found its device missing and no other one
C19_Witness ==
  /\ op.name = "check"
  /\ op.locates = 1 /\ device_path = None
  /\ pending = 1

====
